---- MODULE Spec2Model ----
(***************************************************************************)
(* A model of the query runtime of yeter (src/src/lib.rs): the registry,   *)
(* the per-query caches, the call stack that tracks dependencies, the      *)
(* versioning that decides whether a cached computation is still valid,    *)
(* and the effect scratch.                                                 *)
(*                                                                         *)
(* try_run is re-entrant: a query body calls run on other queries.  One    *)
(* activation of try_run is a frame of `frames`; an activation is split    *)
(* where the code hands control to the body (line 255): TryRun is lines   *)
(* 187-253, BodyEffect and BodyCall are steps of the body, Commit is lines *)
(* 257-273.  A panic (the unwrap of run, an expect of try_run) ends the    *)
(* program.                                                                *)
(***************************************************************************)
EXTENDS Integers, Sequences, FiniteSets, TLC

\* ------------------------------------------------------------------ bounds

\* The inputs of fib are the hashes 0..MaxInput.
MaxInput == 2
\* Number of register calls in one behaviour.
MaxRegs == 4
\* Number of set calls in one behaviour.
MaxSets == 2
\* Depth of nested try_run activations (the Rust call stack).
MaxDepth == 4
\* Number of further register calls by which the program "repeat", once
\* MaxRegs is reached, repeats the register call it has just made (same query,
\* same body).
MaxAgain == 2

\* ------------------------------------------------------- values and bodies

\* The value of a CachedComputation that is being built
\* (UninitCachedComputationValue).
Uninit == -2
\* The output of an input query that was never set (Option::None).
NoneVal == -1

Queries == {"a", "b", "list"}
\* Queries declared without a body (#[yeter::query] on a foreign item).
InputQueries == {"list"}
Keys == Queries \X (0..MaxInput)

\* The client programs of the repository that drive the database; each is
\* taken with any order of its register, set and run calls.
Programs == {"invalidation", "reentrancy", "effects", "repeat"}

\* The closures program p registers for query q.
BodiesOf(p, q) ==
    CASE p = "invalidation" /\ q = "a" -> {"a_dep"}
      [] p = "invalidation" /\ q = "b" -> {"sum"}
      [] p = "invalidation" /\ q = "list" -> {"list123", "list_empty", "none"}
      [] p = "reentrancy" /\ q = "a" -> {"a_dep"}
      [] p = "reentrancy" /\ q = "b" -> {"depends_on_a", "fib"}
      [] p = "effects" /\ q = "a" -> {"len", "emit"}
      [] p = "effects" /\ q = "b" -> {"len", "fib"}
      [] p = "repeat" /\ q = "a" -> {"len", "emit"}
      [] p = "repeat" /\ q = "b" -> {"fib"}
      [] OTHER -> {}

\* The inputs program p runs query q on.
InputsOf(p, q) ==
    CASE p = "invalidation" /\ q = "list" -> {0, 1}
      [] p = "reentrancy" /\ q = "b" -> 0..MaxInput
      [] p = "effects" /\ q = "a" -> {0, 1}
      [] p = "repeat" /\ q = "a" -> {1}
      [] OTHER -> {0}

\* The register calls program p makes beyond MaxRegs.
AgainOf(p) == IF p = "repeat" THEN MaxAgain ELSE 0

CallOp(q, h) == [k |-> "call", q |-> q, h |-> h, e |-> ""]
EffOp(e) == [k |-> "eff", q |-> "", h |-> 0, e |-> e]

\* What a body does on input h, in order: the queries it runs and the effects
\* it emits.
\*   len           examples/effects.rs: an effect on the empty string (hash 0)
\*   emit          an effect, a run of another query, an effect
\*   a_dep         tests/reentrancy.rs, a: runs the other query, adds one
\*   depends_on_a  tests/reentrancy.rs: runs a, subtracts one
\*   fib           tests/reentrancy.rs: runs itself on h - 1 and h - 2
\*   sum           examples/invalidation.rs: runs list
\*   list123, list_empty   examples/invalidation.rs: the two bodies of list
\*   none          the body of an input query (macros/lib.rs line 353)
BodyOps(body, h) ==
    CASE body = "len" -> IF h = 0 THEN <<EffOp("e1")>> ELSE <<>>
      [] body = "emit" -> IF h = 0
                          THEN <<EffOp("e1"), CallOp("b", 0), EffOp("e2")>>
                          ELSE <<CallOp("b", 0)>>
      [] body = "a_dep" -> <<CallOp("b", 0)>>
      [] body = "depends_on_a" -> <<CallOp("a", 0)>>
      [] body = "fib" -> IF h < 2 THEN <<>>
                         ELSE <<CallOp("b", h - 1), CallOp("b", h - 2)>>
      [] body = "sum" -> <<CallOp("list", 0)>>
      [] OTHER -> <<>>

\* The value a body returns on input h, rs being the values its calls returned.
BodyRet(body, h, rs) ==
    CASE body = "len" -> h
      [] body = "emit" -> rs[1]
      [] body = "a_dep" -> rs[1] + 1
      [] body = "depends_on_a" -> rs[1] - 1
      [] body = "fib" -> IF h < 2 THEN h ELSE rs[1] + rs[2]
      [] body = "sum" -> IF rs[1] = NoneVal THEN 0 ELSE rs[1]
      [] body = "list123" -> 6
      [] body = "list_empty" -> 0
      [] OTHER -> NoneVal

\* ------------------------------------------------------------------- state

VARIABLES
    prog,       \* the client program
    fns,        \* Database.fns: registered query -> body
    caches,     \* Database.caches: query -> (input hash -> CachedComputation)
    stack,      \* Database.stack
    effects,    \* Database.effects: the scratch bucket of the effect type
    frames,     \* the activations of try_run, outermost first
    panicked,   \* "no", or the panic that ended the program
    regs,       \* register calls so far
    sets,       \* set calls so far
    changed,    \* a re-registration or a set has happened
    runs,       \* key -> executions of the body while changed is false
    dirty,      \* keys whose entry had a dependency on a query re-registered since
                \* (and not set since)
    pending,    \* keys whose entry existed when their query was re-registered
    watch,      \* the first top-level run to return since the last register/set
    inputSet,   \* input hash -> value last set for "list" (Uninit: none)
    emitted,    \* key -> the effects its body emitted when it last ran
    base,       \* the effects Database::effect held when the top-level run in
                \* progress was called
    computed,   \* the keys computed so far by the top-level run in progress
    failed,     \* the (query, input hash) whose run panicked
    lastReg,    \* the query the last call of the client registered, "" when
                \* the last call was not a register
    again,      \* register calls made beyond MaxRegs
    held,       \* the lock guards alive, in the order they were acquired
    at,         \* where the thread is: "user" (client code or a query body)
                \* or inside a block of try_run
    call        \* the locals of the call of try_run that is between line 187
                \* and the call of its body, or past the return of its body

vars == <<prog, fns, caches, stack, effects, frames, panicked, regs, sets,
          changed, runs, dirty, pending, watch, inputSet, emitted, base, computed,
          failed, lastReg, again, held, at, call>>

db == <<fns, caches, stack, effects>>
hist == <<changed, runs, dirty, pending, watch, inputSet, emitted, base,
          computed>>
client == <<regs, sets, lastReg, again>>
locks == <<held, at, call>>

Last(s) == s[Len(s)]
Range(s) == {s[i] : i \in 1..Len(s)}
SetMax(S) == CHOOSE x \in S : \A y \in S : y <= x

NoWatch == [q |-> "", h |-> 0, val |-> Uninit]
NoRuns == [k \in Keys |-> 0]
NoInput == [h \in {0, 1} |-> Uninit]
NoEmitted == [k \in Keys |-> <<>>]
NoCall == [q |-> "", h |-> 0, old_version |-> 0, why |-> "", effects |-> <<>>]

\* CachedComputation::new
NewCachedComputation(version) ==
    [version |-> version, dependencies |-> <<>>, value |-> Uninit,
     effects |-> <<>>, redefined |-> FALSE]

is_uninit(c) == c.value = Uninit

Init ==
    /\ prog \in Programs
    /\ fns = <<>>
    /\ caches = <<>>
    /\ stack = <<>>
    /\ effects = <<>>
    /\ frames = <<>>
    /\ panicked = "no"
    /\ regs = 0
    /\ sets = 0
    /\ changed = FALSE
    /\ runs = NoRuns
    /\ dirty = {}
    /\ pending = {}
    /\ watch = NoWatch
    /\ inputSet = NoInput
    /\ emitted = NoEmitted
    /\ base = {}
    /\ computed = {}
    /\ failed = <<>>
    /\ held = <<>>
    /\ at = "user"
    /\ call = NoCall
    /\ lastReg = ""
    /\ again = 0

Idle == panicked = "no" /\ frames = <<>>

HasEntry(q, h) == q \in DOMAIN caches /\ h \in DOMAIN caches[q]
Entries == {k \in Keys : HasEntry(k[1], k[2])}

Entry(k) == caches[k[1]][k[2]]

\* The effects a body can emit.
EffectValues == {"e1", "e2"}

Count(seq, e) == Cardinality({i \in 1..Len(seq) : seq[i] = e})

CountIn(ks, e) ==
    Cardinality(UNION {{<<k, i>> : i \in {j \in 1..Len(Entry(k).effects) :
                                            Entry(k).effects[j] = e}} :
                       k \in ks})

\* Database::effect, lines 277-288: how often e occurs in the collection.
effect(e) == CountIn(Entries, e)

\* ---------------------------------------------------------------- register

\* Database::register, lines 143-148: every cached computation of a redefined
\* query gets its version incremented and is flagged.
RedefineUnflagged(cc) == [cc EXCEPT !.version = @ + 1]
RedefineByTwo(cc) == [cc EXCEPT !.version = @ + 2, !.redefined = TRUE]
RedefineClearEffects(cc) ==
    [cc EXCEPT !.version = @ + 1, !.redefined = TRUE, !.effects = <<>>]
Redefine(cc) == [cc EXCEPT !.version = @ + 1, !.redefined = TRUE]

\* Database::register, lines 138-151.
RegisterCaches(q) ==
    IF q \in DOMAIN fns
    THEN [caches EXCEPT ![q] = [h \in DOMAIN caches[q] |-> Redefine(caches[q][h])]]
    ELSE (q :> <<>>) @@ caches

DependsOn(k, q) == \E d \in Range(Entry(k).dependencies) : d[1] = q

\* The register call repeats the one the client has just made.
Repeats(q, body) == lastReg = q /\ fns[q] = body

Register(q, body) ==
    /\ Idle
    /\ regs < MaxRegs \/ (Repeats(q, body) /\ again < AgainOf(prog))
    /\ fns' = (q :> body) @@ fns
    /\ caches' = RegisterCaches(q)
    /\ regs' = IF regs < MaxRegs THEN regs + 1 ELSE regs
    /\ again' = IF regs < MaxRegs THEN again ELSE again + 1
    /\ lastReg' = q
    /\ changed' = (changed \/ q \in DOMAIN fns)
    /\ dirty' = dirty \cup {k \in Entries : q \in DOMAIN fns /\ DependsOn(k, q)}
    /\ pending' = pending \cup {k \in Entries : q \in DOMAIN fns /\ k[1] = q}
    /\ watch' = NoWatch
    /\ runs' = IF q \in DOMAIN fns THEN NoRuns ELSE runs
    /\ inputSet' = IF q \in InputQueries THEN NoInput ELSE inputSet
    /\ UNCHANGED <<prog, stack, effects, frames, panicked, sets, emitted, base,
                   computed, failed, locks>>

\* ------------------------------------------------------------------ try_run

\* try_run, lines 199-214: the newest version among the dependencies of c, 1
\* when it has none.
NewestDep(c) ==
    IF c.dependencies = <<>> THEN 1
    ELSE SetMax({Entry(d).version : d \in Range(c.dependencies)})

\* try_run, lines 203-207: a dependency without a cache entry.
Dangling(c) == \E d \in Range(c.dependencies) : ~HasEntry(d[1], d[2])

\* try_run, line 215: the entry is at least as new as its dependencies.
UpToDateNever(c) == c.version > NewestDep(c)
UpToDate(c) == c.version >= NewestDep(c)

\* try_run, lines 193-232: what the cache says about (q, h).  "hit" carries the
\* cached value, "compute" the old_version the new entry is built from.
Lookup(q, h) ==
    IF ~HasEntry(q, h) THEN [k |-> "compute", v |-> 0, why |-> "missing"]
    ELSE LET c == caches[q][h] IN
         IF c.redefined
         THEN [k |-> "compute", v |-> c.version, why |-> "redefined"]
         ELSE IF Dangling(c) THEN [k |-> "dangling", v |-> 0, why |-> ""]
         ELSE IF UpToDate(c)
              THEN (IF is_uninit(c) THEN [k |-> "cycle", v |-> 0, why |-> ""]
                    ELSE [k |-> "hit", v |-> c.value, why |-> ""])
              ELSE [k |-> "compute", v |-> NewestDep(c), why |-> "stale"]

\* try_run, lines 234-239.
InsertUninitAtOne(q, h, old_version) ==
    [caches EXCEPT ![q] = (h :> NewCachedComputation(1)) @@ @]
InsertUninitSameVersion(q, h, old_version) ==
    [caches EXCEPT ![q] = (h :> NewCachedComputation(old_version)) @@ @]
InsertUninit(q, h, old_version) ==
    [caches EXCEPT ![q] = (h :> NewCachedComputation(old_version + 1)) @@ @]

\* try_run, lines 246-252: (q, h) becomes a dependency of the entry that was on
\* top of the stack before the push.
RecordDepOtherHash(c, q, h) ==
    IF stack = <<>> THEN c
    ELSE LET t == Last(stack) IN
         [c EXCEPT ![t[1]][t[2]].dependencies = Append(@, <<q, h + 1>>)]
RecordDep(c, q, h) ==
    IF stack = <<>> THEN c
    ELSE LET t == Last(stack) IN
         [c EXCEPT ![t[1]][t[2]].dependencies = Append(@, <<q, h>>)]

\* An activation of try_run at line 255: f is the body looked up at line 187,
\* why tells which branch of lines 196-231 gave old_version.
NewFrame(q, h, why) ==
    [q |-> q, h |-> h, body |-> fns[q], why |-> why, pc |-> 1, rs |-> <<>>,
     em |-> <<>>]

\* The value v is handed to the caller: the calling body goes on after its call.
Deliver(fr, v) ==
    IF fr = <<>> THEN fr
    ELSE [fr EXCEPT ![Len(fr)] = [@ EXCEPT !.pc = @ + 1, !.rs = Append(@, v)]]

Saw(q, h, v, top) ==
    IF top /\ watch = NoWatch THEN [q |-> q, h |-> h, val |-> v] ELSE watch

\* The call fails and the thread panics: the expect of lines 187, 205 and 207,
\* the unwrap by run (line 178) of the Err of line 219.  Nothing is written.
PanicAfterPush(msg, q, h) ==
    /\ panicked' = msg
    /\ failed' = <<q, h>>
    /\ stack' = Append(stack, <<q, h>>)
    /\ UNCHANGED <<fns, caches, effects, frames, hist>>
PanicAfterRecordDep(msg, q, h) ==
    /\ panicked' = msg
    /\ failed' = <<q, h>>
    /\ caches' = RecordDep(caches, q, h)
    /\ UNCHANGED <<fns, stack, effects, frames, hist>>
Panic(msg, q, h) ==
    /\ panicked' = msg
    /\ failed' = <<q, h>>
    /\ UNCHANGED <<db, frames, hist>>

\* Database::run / try_run up to the call of the body (lines 178, 187-253),
\* called from the top level (frames empty) or from the body on top of frames.
TryRun(q, h) ==
    LET top == frames = <<>>
        r == Lookup(q, h)
    IN
    IF q \notin DOMAIN fns THEN Panic("Unknown query", q, h)
    ELSE IF r.k = "dangling" THEN Panic("non-cached dependency", q, h)
    ELSE IF r.k = "hit"
    THEN /\ frames' = Deliver(frames, r.v)
         /\ watch' = Saw(q, h, r.v, top)
         /\ UNCHANGED <<db, panicked, failed, changed, runs, dirty, pending,
                         inputSet, emitted, base, computed>>
    ELSE IF r.k = "cycle" THEN Panic("CycleError", q, h)
    ELSE /\ Len(frames) < MaxDepth
         /\ caches' = RecordDep(InsertUninit(q, h, r.v), q, h)
         /\ stack' = Append(stack, <<q, h>>)
         /\ frames' = Append(frames, NewFrame(q, h, r.why))
         /\ runs' = IF changed THEN runs ELSE [runs EXCEPT ![<<q, h>>] = @ + 1]
         /\ dirty' = dirty \ {<<q, h>>}
         /\ pending' = pending \ {<<q, h>>}
         /\ emitted' = [emitted EXCEPT ![<<q, h>>] = <<>>]
         /\ base' = IF top THEN {e \in EffectValues : effect(e) >= 1} ELSE base
         /\ computed' = IF top THEN {<<q, h>>} ELSE computed \cup {<<q, h>>}
         /\ UNCHANGED <<fns, effects, panicked, failed, changed, watch, inputSet>>

\* A top-level call of run.
Run(q, h) ==
    /\ Idle
    /\ TryRun(q, h)
    /\ lastReg' = ""
    /\ UNCHANGED <<prog, regs, sets, again, locks>>

Running == panicked = "no" /\ frames # <<>>
Top == Last(frames)
TopOps == BodyOps(Top.body, Top.h)

\* The body on top calls run on another query (macros/lib.rs line 262).
BodyCall ==
    /\ Running
    /\ Top.pc <= Len(TopOps)
    /\ TopOps[Top.pc].k = "call"
    /\ TryRun(TopOps[Top.pc].q, TopOps[Top.pc].h)
    /\ UNCHANGED <<prog, client, locks>>

\* Database::do_effect, lines 291-299, called by the body on top.
BodyEffect ==
    /\ Running
    /\ Top.pc <= Len(TopOps)
    /\ TopOps[Top.pc].k = "eff"
    /\ effects' = Append(effects, TopOps[Top.pc].e)
    /\ frames' = [frames EXCEPT ![Len(frames)] =
                     [@ EXCEPT !.pc = @ + 1, !.em = Append(@, TopOps[Top.pc].e)]]
    /\ UNCHANGED <<prog, fns, caches, stack, panicked, failed, client, hist,
                   locks>>

\* try_run, lines 262-271: the scratch becomes the effects of the entry of
\* (q, h), and the output of the body its value.
CommitCachesNoValue(q, h, out) ==
    [caches EXCEPT ![q][h].effects = effects]
CommitCachesNoEffects(q, h, out) ==
    [caches EXCEPT ![q][h].value = out]
CommitCaches(q, h, out) ==
    [caches EXCEPT ![q][h].effects = effects, ![q][h].value = out]

\* try_run, lines 257-260: stack.pop().
PopNothing(s) == s
Pop(s) == SubSeq(s, 1, Len(s) - 1)

\* try_run, lines 255-273: the body on top has returned.
Commit ==
    /\ Running
    /\ Top.pc > Len(TopOps)
    /\ LET f == Top
           out == BodyRet(f.body, f.h, f.rs)
           top == Len(frames) = 1
       IN /\ stack' = Pop(stack)
          /\ effects' = <<>>
          /\ caches' = CommitCaches(f.q, f.h, out)
          /\ frames' = Deliver(SubSeq(frames, 1, Len(frames) - 1), out)
          /\ watch' = Saw(f.q, f.h, out, top)
          /\ emitted' = [emitted EXCEPT ![<<f.q, f.h>>] = f.em]
          /\ base' = IF top THEN {} ELSE base
          /\ computed' = IF top THEN {} ELSE computed
    /\ UNCHANGED <<prog, fns, panicked, failed, client, changed, runs, dirty,
                   pending, inputSet, locks>>

\* ---------------------------------------------------------------------- set

\* The values a test sets an input query to: Some([1, 2, 3]) and Some([]),
\* each as the number its consumer reads.
SetValues == {6, 0}

\* Database::set: the value is written into the cache at version 1 with no
\* dependencies.
SetCachesAllInputs(q, h, v) ==
    [caches EXCEPT ![q] =
        [x \in DOMAIN @ \cup {h} |-> [NewCachedComputation(1) EXCEPT !.value = v]]]
SetCaches(q, h, v) ==
    [caches EXCEPT ![q] =
        (h :> [NewCachedComputation(1) EXCEPT !.value = v]) @@ @]

Set(q, h, v) ==
    /\ Idle
    /\ sets < MaxSets
    /\ q \in InputQueries
    /\ q \in DOMAIN fns
    /\ caches' = SetCaches(q, h, v)
    /\ sets' = sets + 1
    /\ changed' = TRUE
    /\ dirty' = {k \in dirty : k # <<q, h>> /\ ~DependsOn(k, q)}
    /\ pending' = pending \ {<<q, h>>}
    /\ watch' = NoWatch
    /\ runs' = NoRuns
    /\ inputSet' = [inputSet EXCEPT ![h] = v]
    /\ emitted' = [emitted EXCEPT ![<<q, h>>] = <<>>]
    /\ lastReg' = ""
    /\ UNCHANGED <<prog, fns, stack, effects, frames, panicked, failed, regs,
                   again, base, computed, locks>>

\* ------------------------------------------------------------ specification

Next ==
    \/ \E q \in Queries : \E body \in BodiesOf(prog, q) : Register(q, body)
    \/ \E q \in Queries : \E h \in InputsOf(prog, q) : Run(q, h)
    \/ BodyCall
    \/ BodyEffect
    \/ Commit
    \/ \E q \in InputQueries : \E h \in InputsOf(prog, q), v \in SetValues :
          Set(q, h, v)

Spec == Init /\ [][Next]_vars

\* --------------------------------------------------------- what a run returns

\* run(q, h) called now would be served from the cache.
IsHit(q, h) == q \in DOMAIN fns /\ Lookup(q, h).k = "hit"

\* The outermost activation is about to return the value of its body.
Returning(q, h) ==
    /\ panicked = "no"
    /\ Len(frames) = 1
    /\ frames[1].q = q
    /\ frames[1].h = h
    /\ frames[1].pc > Len(BodyOps(frames[1].body, h))

ReturnValue == BodyRet(frames[1].body, frames[1].h, frames[1].rs)

\* The calls of a body, in order.
CallsOf(body, h) == SelectSeq(BodyOps(body, h), LAMBDA o : o.k = "call")

\* The value of q on h evaluated from scratch with the registered bodies, no
\* cache being consulted; Uninit when the evaluation does not end within fuel
\* nested calls (a cycle) or meets an unregistered query.
RECURSIVE FromScratch(_, _, _)
FromScratch(q, h, fuel) ==
    IF fuel = 0 \/ q \notin DOMAIN fns THEN Uninit
    ELSE LET cs == CallsOf(fns[q], h)
             rs == [i \in 1..Len(cs) |-> FromScratch(cs[i].q, cs[i].h, fuel - 1)]
         IN IF \E i \in 1..Len(cs) : rs[i] = Uninit THEN Uninit
            ELSE BodyRet(fns[q], h, rs)

Fresh(q, h) == FromScratch(q, h, Cardinality(Keys) + 1)

RunKeys == {k \in Keys : k[2] \in InputsOf(prog, k[1])}

\* --------------------------------------------------------------------- claims

\* C1 (memoization): while no query has been re-registered and nothing has
\* been set, the body of a query is executed at most once for each (query,
\* input hash), and the key that a top-level run has returned a value for is
\* from then on served from the cache, with that value.
C1_Memoization ==
    ~changed =>
        /\ \A k \in Keys : runs[k] <= 1
        /\ watch # NoWatch =>
              /\ IsHit(watch.q, watch.h)
              /\ Lookup(watch.q, watch.h).v = watch.val

\* fib(1) was run at the top level, and now the body of fib(2) has consulted
\* it again and got the cached value.
C1_Witness ==
    /\ ~changed
    /\ watch = [q |-> "b", h |-> 1, val |-> 1]
    /\ Len(frames) = 1
    /\ frames[1].body = "fib"
    /\ frames[1].h = 2
    /\ frames[1].rs = <<1>>
    /\ runs[<<"b", 1>>] = 1

\* C2 (redefinition cascade, transitive freshness): as long as nothing is set,
\* a top-level run returns the value that evaluating the query from scratch
\* with the currently registered bodies returns, whether it is served from the
\* cache or computed.
C2_TransitiveFreshness ==
    sets = 0 =>
        \A k \in RunKeys :
            Fresh(k[1], k[2]) # Uninit =>
                /\ (Idle /\ IsHit(k[1], k[2])) =>
                       Lookup(k[1], k[2]).v = Fresh(k[1], k[2])
                /\ Returning(k[1], k[2]) => ReturnValue = Fresh(k[1], k[2])

\* C3 (invalidation of direct dependents): an entry that had a dependency on a
\* query when that query was re-registered is not served from the cache until
\* it has been recomputed.
C3_DependentsInvalidated ==
    \A k \in dirty : ~IsHit(k[1], k[2])

\* C4 (re-registration forces the new body): an entry that existed when its
\* query was re-registered is not served from the cache: the next run of it
\* computes, and every body in execution is the one registered for its query.
C4_RedefinedRecomputed ==
    /\ \A k \in pending : Lookup(k[1], k[2]).k = "compute"
    /\ \A i \in 1..Len(frames) : frames[i].body = fns[frames[i].q]

\* The entry of a re-registered query is being recomputed by the new body,
\* which is about to return.
C4_Witness ==
    /\ Len(frames) = 1
    /\ frames[1].why = "redefined"
    /\ frames[1].body = "list_empty"
    /\ Returning("list", 0)
    /\ pending = {}

\* The call the body on top is about to make.
NextCall == TopOps[Top.pc]
Calling ==
    /\ Running
    /\ Top.pc <= Len(TopOps)
    /\ NextCall.k = "call"

\* C5 (cycle detection soundness): a call of run for a (query, input hash)
\* that is on the call stack yields CycleError; its body is not executed again.
C5_CycleDetected ==
    (Calling /\ <<NextCall.q, NextCall.h>> \in Range(stack)) =>
        Lookup(NextCall.q, NextCall.h).k = "cycle"

RECURSIVE Fib(_)
Fib(n) == IF n < 2 THEN n ELSE Fib(n - 1) + Fib(n - 2)

\* C6 (no false cycles): CycleError is produced only for a call whose (query,
\* input hash) is on the call stack; a body of fib, which calls itself on
\* smaller inputs, never gets it and returns the Fibonacci number of its input.
C6_NoFalseCycle ==
    /\ panicked = "CycleError" =>
          /\ frames # <<>>
          /\ <<NextCall.q, NextCall.h>> \in Range(stack)
          /\ Top.body # "fib"
    /\ \A i \in 1..Len(frames) :
          (frames[i].body = "fib"
             /\ frames[i].pc > Len(BodyOps("fib", frames[i].h))) =>
          BodyRet("fib", frames[i].h, frames[i].rs) = Fib(frames[i].h)

\* fib(2) has consulted fib(1) and fib(0) and is about to return 1.
C6_Witness ==
    /\ Returning("b", 2)
    /\ frames[1].body = "fib"
    /\ frames[1].rs = <<1, 0>>
    /\ ReturnValue = 1

\* C7 (idempotence of pure queries): a top-level run returns the value that
\* the first top-level run since the last register or set returned for the
\* same (query, input hash), whatever was run in between.
C7_Idempotent ==
    watch # NoWatch =>
        /\ (Idle /\ IsHit(watch.q, watch.h)) =>
               Lookup(watch.q, watch.h).v = watch.val
        /\ Returning(watch.q, watch.h) => ReturnValue = watch.val

\* C8 (effect capture and replay): when a top-level run has executed a body,
\* the effects the body emitted are in the collection of Database::effect once
\* it returns; a top-level run that is a cache hit changes no count in the
\* collection; and when the body emitted nothing, the effects that the bodies
\* of the entries of the same query on other inputs emitted, and that were in
\* the collection when the run was called, are still in it.
C8_Captured ==
    \A k \in RunKeys :
        Returning(k[1], k[2]) =>
            /\ \A e \in Range(frames[1].em) :
                  Count(effects, e) + effect(e) >= Count(frames[1].em, e)
            /\ frames[1].em = <<>> =>
                  \A x \in InputsOf(prog, k[1]) \ {k[2]} :
                      HasEntry(k[1], x) =>
                          \A e \in Range(emitted[<<k[1], x>>]) \cap base :
                              effect(e) >= 1

C8_EffectsKept ==
    [][/\ (Idle /\ Idle' /\ regs' = regs /\ sets' = sets) =>
              \A e \in EffectValues : effect(e)' = effect(e)
       /\ C8_Captured']_vars

\* C9 (per-entry effect ownership): the effects of a committed entry are the
\* effects its own body emitted when it ran.
C9_OwnEffects ==
    \A k \in Entries :
        ~is_uninit(Entry(k)) => Entry(k).effects = emitted[k]

\* C10 (dependent invalidation via set): once the input query list is set on
\* input 0, a top-level run of sum returns the sum of the value last set.
C10_SetInvalidates ==
    (/\ "b" \in DOMAIN fns /\ fns["b"] = "sum"
     /\ "list" \in DOMAIN fns /\ fns["list"] = "none"
     /\ inputSet[0] # Uninit) =>
        /\ (Idle /\ IsHit("b", 0)) =>
               Lookup("b", 0).v = BodyRet("sum", 0, <<inputSet[0]>>)
        /\ Returning("b", 0) =>
               ReturnValue = BodyRet("sum", 0, <<inputSet[0]>>)

\* The value the j-th run of the body of activation f returned, when that run
\* was of (q, h).
Read(f, j, q, h) ==
    /\ j <= Len(f.rs)
    /\ CallsOf(f.body, f.h)[j].q = q
    /\ CallsOf(f.body, f.h)[j].h = h

\* The inputs of the input query list that are set.
IsSet(h) == inputSet[h] # Uninit

C11_Reads ==
    \A h \in DOMAIN inputSet :
        IsSet(h) =>
            /\ Lookup("list", h) = [k |-> "hit", v |-> inputSet[h], why |-> ""]
            /\ \A i \in 1..Len(frames) :
                  \A j \in 1..Len(frames[i].rs) :
                      Read(frames[i], j, "list", h) =>
                          frames[i].rs[j] = inputSet[h]

RepeatedRegister ==
    /\ regs' = regs + 1 \/ again' = again + 1
    /\ lastReg # ""
    /\ lastReg' = lastReg
    /\ fns' = fns

\* C14 (registration is idempotent): registering a body a second time in a
\* row changes for no (query, input hash) whether a run of it is served from
\* the cache or computed, nor the value it is served.
C14_RegisterIdempotent ==
    [][RepeatedRegister =>
          \A k \in RunKeys :
              /\ Lookup(k[1], k[2])'.k = Lookup(k[1], k[2]).k
              /\ IsHit(k[1], k[2]) =>
                    Lookup(k[1], k[2])'.v = Lookup(k[1], k[2]).v]_vars

\* The body on top has returned and try_run is about to commit its entry.
Committing == Running /\ Top.pc > Len(TopOps)
TopEntry == Entry(<<Top.q, Top.h>>)

\* The (query, input hash) the body ran, in order.
Consulted(body, h) ==
    [j \in 1..Len(CallsOf(body, h)) |->
        <<CallsOf(body, h)[j].q, CallsOf(body, h)[j].h>>]

\* C15 (dependency recording): when a computation commits, the dependencies
\* of its entry are the (query, input hash) its body ran, in the order it ran
\* them, whether they were served from the cache or computed (in the programs
\* that set nothing).
C15_DependenciesRecorded ==
    (sets = 0 /\ Committing) =>
        TopEntry.dependencies = Consulted(Top.body, Top.h)

\* C16 (commit-time dominance): when a computation commits, the version of
\* its entry is at least the version of every entry in its dependencies (in
\* the programs that set nothing).
C16_CommitDominance ==
    (sets = 0 /\ Committing) =>
        \A d \in Range(TopEntry.dependencies) :
            TopEntry.version >= Entry(d).version

\* C17 (no dangling dependencies): every (query, input hash) in the
\* dependencies of a cache entry has a cache entry, and no run fails on a
\* dependency that is not cached.
C17_NoDangling ==
    /\ \A k \in Entries :
          \A d \in Range(Entry(k).dependencies) :
              d[1] \in DOMAIN caches /\ d[2] \in DOMAIN caches[d[1]]
    /\ panicked # "non-cached dependency"

\* fib(2) is memoized with its two dependencies, and the check of its
\* dependencies' versions serves it from the cache.
C17_Witness ==
    /\ Idle
    /\ HasEntry("b", 2)
    /\ Entry(<<"b", 2>>).dependencies = <<<<"b", 1>>, <<"b", 0>>>>
    /\ IsHit("b", 2)

\* C18 (version monotonicity): the version of a cache entry is at least 1,
\* and no step of register or run, nested or not, removes an entry or lowers
\* its version.
C18_VersionMonotonic ==
    [][(sets' = sets /\ caches' # caches) =>
          /\ \A q \in DOMAIN caches :
                \A h \in DOMAIN caches[q] :
                    /\ q \in DOMAIN caches' /\ h \in DOMAIN caches'[q]
                    /\ caches'[q][h].version >= caches[q][h].version
          /\ \A q \in DOMAIN caches' :
                \A h \in DOMAIN caches'[q] : caches'[q][h].version >= 1]_vars

\* A stale entry has been replaced by a fresh Uninit one, at a higher version,
\* and is being recomputed.
C18_Witness ==
    /\ Running
    /\ Top.why = "stale"
    /\ is_uninit(TopEntry)
    /\ TopEntry.version >= 3

\* The step starts a computation: try_run has inserted a fresh entry and
\* pushed its key.
Starts == Len(frames') = Len(frames) + 1

\* The version lines 193-232 derive for the entry of k, by the branch taken,
\* plus bump.
VersionFor(k, bump) ==
    IF ~HasEntry(k[1], k[2]) THEN 1
    ELSE IF Entry(k).redefined THEN Entry(k).version + bump
    ELSE NewestDep(Entry(k)) + bump

\* C19 (version assigned on recomputation): a redefined entry is recomputed
\* at its current version, a stale one at the newest version among its
\* dependencies, and a first-time entry is created at version 1 (in the
\* programs that set nothing).
C19_RecomputedAtOldVersion ==
    [][(Starts /\ sets = 0) =>
          LET k == Last(stack')
          IN caches'[k[1]][k[2]].version = VersionFor(k, 0)]_vars

\* C19 as amended: a redefined entry is recomputed at its current version
\* plus one, a stale one at the newest version among its dependencies plus
\* one, and a first-time entry is created at version 1.
C19_RecomputedAtNextVersion ==
    [][Starts =>
          LET k == Last(stack')
          IN caches'[k[1]][k[2]].version = VersionFor(k, 1)]_vars

\* An entry that register had brought to version 2 is being recomputed at
\* version 3.
C19_Witness ==
    /\ Running
    /\ Top.why = "redefined"
    /\ is_uninit(TopEntry)
    /\ TopEntry.version = 3
    /\ ~TopEntry.redefined

\* The step is a register call (of the query lastReg').
Registers == regs' = regs + 1 \/ again' = again + 1

\* C20 (re-registration): a register call of a registered query adds exactly
\* one to the version of every cache entry of the query and flags it
\* redefined, and touches no other entry; the first register call of a query
\* creates its empty cache table; no other step flags an entry, and an entry
\* being recomputed is not flagged.
C20_Reregistration ==
    [][/\ Registers =>
             /\ \A q \in DOMAIN caches \ {lastReg'} : caches'[q] = caches[q]
             /\ IF lastReg' \in DOMAIN fns
                THEN /\ DOMAIN caches'[lastReg'] = DOMAIN caches[lastReg']
                     /\ \A h \in DOMAIN caches[lastReg'] :
                           caches'[lastReg'][h] =
                               [caches[lastReg'][h] EXCEPT !.version = @ + 1,
                                                           !.redefined = TRUE]
                ELSE caches'[lastReg'] = <<>>
       /\ (~Registers /\ caches' # caches) =>
             \A q \in DOMAIN caches' :
                 \A h \in DOMAIN caches'[q] :
                     caches'[q][h].redefined =>
                         (HasEntry(q, h) /\ caches[q][h].redefined)
       /\ \A k \in Range(stack') : ~caches'[k[1]][k[2]].redefined]_vars

\* fib was run on 2 and then registered again: its three entries are at
\* version 2 and flagged.
C20_Witness ==
    /\ Idle
    /\ lastReg = "b"
    /\ \A h \in 0..2 :
          /\ HasEntry("b", h)
          /\ Entry(<<"b", h>>).redefined
          /\ Entry(<<"b", h>>).version = 2

\* C21 (frame of register): a register call leaves the value, the
\* dependencies and the effects of every cache entry as they were, and every
\* field of the entries of the other queries; it removes no entry, and the
\* collection of Database::effect is as before it.
C21_RegisterFrame ==
    [][Registers =>
          /\ \A q \in DOMAIN caches :
                /\ q \in DOMAIN caches'
                /\ q # lastReg' => caches'[q] = caches[q]
                /\ \A h \in DOMAIN caches[q] :
                      /\ h \in DOMAIN caches'[q]
                      /\ caches'[q][h].value = caches[q][h].value
                      /\ caches'[q][h].dependencies = caches[q][h].dependencies
                      /\ caches'[q][h].effects = caches[q][h].effects
          /\ \A e \in EffectValues : effect(e)' = effect(e)]_vars

\* len was run on the empty string and registered again: its entry is flagged
\* and still holds the effect, which Database::effect returns.
C21_Witness ==
    /\ Idle
    /\ lastReg = "a"
    /\ HasEntry("a", 0)
    /\ Entry(<<"a", 0>>).redefined
    /\ Entry(<<"a", 0>>).effects = <<"e1">>
    /\ Entry(<<"a", 0>>).value = 0
    /\ effect("e1") = 1

\* C22 (Uninit is confined to the call stack): unless the program has
\* panicked, a cache entry whose value is Uninit has its (query, input hash)
\* on the call stack; with an empty call stack no entry is Uninit.
C22_UninitOnStack ==
    panicked = "no" =>
        \A k \in Entries : is_uninit(Entry(k)) => k \in Range(stack)

\* fib(2) and, nested in it, fib(1) are being computed: both entries are
\* Uninit and on the call stack, the memoized fib(0) is not.
C22_Witness ==
    /\ panicked = "no"
    /\ stack = <<<<"b", 2>>, <<"b", 1>>>>
    /\ is_uninit(Entry(<<"b", 2>>))
    /\ is_uninit(Entry(<<"b", 1>>))
    /\ HasEntry("b", 0)
    /\ ~is_uninit(Entry(<<"b", 0>>))

\* C23 (effects are replaced on recomputation): a recomputed entry holds no
\* effect that the latest execution of its body did not emit; when that
\* execution emitted nothing, the entry holds no effect (in the programs that
\* set nothing).
C23_EffectsReplaced ==
    sets = 0 =>
        \A k \in Entries :
            (~is_uninit(Entry(k)) /\ ~Entry(k).redefined
                /\ Entry(k).version > 1) =>
                Range(Entry(k).effects) \subseteq Range(emitted[k])

EmittedIn(ks, e) ==
    Cardinality(UNION {{<<k, i>> : i \in {j \in 1..Len(emitted[k]) :
                                            emitted[k][j] = e}} :
                       k \in ks})

\* The keys the top-level run in progress has computed and committed.
Nested == computed \ {<<frames[1].q, frames[1].h>>}

C26_StackDiscipline ==
    panicked = "no" =>
        /\ Len(stack) = Len(frames)
        /\ \A i \in 1..Len(frames) : stack[i] = <<frames[i].q, frames[i].h>>

\* The body of a(0) resumes after the nested computation of b(0) returned
\* and popped itself.
C26_Witness ==
    /\ panicked = "no"
    /\ Len(frames) = 1
    /\ Top.q = "a" /\ Top.h = 0 /\ Top.body = "a_dep" /\ Top.pc = 2
    /\ <<"b", 0>> \in computed
    /\ stack = <<<<"a", 0>>>>

\* C27 (CycleError mutates nothing): the call of try_run that yields
\* CycleError leaves the database as it found it: no entry is created or
\* replaced, no version changes, no dependency is recorded on the caller's
\* entry and nothing is pushed on the call stack.
C27_CycleErrorPure ==
    [][(panicked = "no" /\ panicked' = "CycleError") =>
          (caches' = caches /\ stack' = stack /\ effects' = effects
              /\ fns' = fns)]_vars

\* a(0) runs b(0), whose body runs a(0) again: that call yields CycleError;
\* b(0), the caller, has no dependency recorded and the stack holds the two
\* computations that were executing.
C27_Witness ==
    /\ panicked = "CycleError"
    /\ failed = <<"a", 0>>
    /\ stack = <<<<"a", 0>>, <<"b", 0>>>>
    /\ is_uninit(Entry(<<"a", 0>>)) /\ Entry(<<"a", 0>>).version = 1
    /\ Entry(<<"a", 0>>).dependencies = <<<<"b", 0>>>>
    /\ Entry(<<"b", 0>>).dependencies = <<>>

\* -------------------------------------------------------------------- locks
\* The same program with the guards of the three RwLocks of Database (lines
\* 63-67) made visible: a step ends where a guard is taken or a block ends.

Guard(lock, mode) == [lock |-> lock, mode |-> mode]

\* RwLock::read / RwLock::write return at once: a write guard excludes every
\* other guard of its lock, a read guard every write guard.
Free(h, lock, mode) ==
    \A i \in 1..Len(h) :
        h[i].lock = lock => (mode = "read" /\ h[i].mode = "read")

\* The end of a block (or a return): the n guards declared last are dropped.
DropNone(n) == held
Drop(n) == SubSeq(held, 1, Len(held) - n)

\* The lock is taken by a guard of this thread: read() or write() does not
\* return.
WouldBlock ==
    /\ panicked' = "would block"
    /\ UNCHANGED <<db, frames, hist, failed, locks>>

\* h is what is held when lock.read() or lock.write() is called; A is what the
\* code does with the guard.
Locking(h, lock, mode, A) ==
    IF Free(h, lock, mode)
    THEN held' = Append(h, Guard(lock, mode)) /\ A
    ELSE WouldBlock

\* try_run, lines 187-194: the body is looked up and the read guard of the
\* lookup block is taken.
TryRunEnter(q, h) ==
    IF q \notin DOMAIN fns THEN Panic("Unknown query", q, h) /\ UNCHANGED locks
    ELSE Locking(held, "caches", "read",
            /\ at' = "lookup"
            /\ call' = [NoCall EXCEPT !.q = q, !.h = h]
            /\ UNCHANGED <<db, frames, panicked, failed, hist>>)

\* A top-level call of run.
LockRun(q, h) ==
    /\ Idle
    /\ at = "user"
    /\ TryRunEnter(q, h)
    /\ lastReg' = ""
    /\ UNCHANGED <<prog, regs, sets, again>>

\* The body on top calls run on another query (macros/lib.rs line 262).
LockBodyCall ==
    /\ Running
    /\ at = "user"
    /\ Top.pc <= Len(TopOps)
    /\ TopOps[Top.pc].k = "call"
    /\ TryRunEnter(TopOps[Top.pc].q, TopOps[Top.pc].h)
    /\ UNCHANGED <<prog, client>>

\* try_run, lines 195-219: the lookup block returns the cached value, or the
\* call fails.
LookupReturn ==
    /\ panicked = "no"
    /\ at = "lookup"
    /\ LET r == Lookup(call.q, call.h) IN
       /\ r.k # "compute"
       /\ IF r.k = "hit"
          THEN /\ held' = Drop(1)
               /\ at' = "user"
               /\ call' = NoCall
               /\ frames' = Deliver(frames, r.v)
               /\ UNCHANGED <<db, panicked, failed, hist>>
          ELSE /\ Panic(IF r.k = "cycle" THEN "CycleError"
                        ELSE "non-cached dependency", call.q, call.h)
               /\ UNCHANGED locks
    /\ UNCHANGED <<prog, client>>

\* try_run, lines 220-238: the lookup block ends with old_version, the insert
\* block takes the write guard and inserts the new entry.
LookupInsert ==
    /\ panicked = "no"
    /\ at = "lookup"
    /\ Len(frames) < MaxDepth
    /\ LET r == Lookup(call.q, call.h) IN
       /\ r.k = "compute"
       /\ Locking(Drop(1), "caches", "write",
             /\ caches' = InsertUninit(call.q, call.h, r.v)
             /\ call' = [call EXCEPT !.old_version = r.v, !.why = r.why]
             /\ at' = "insert"
             /\ UNCHANGED <<fns, stack, effects, frames, panicked, failed,
                            hist>>)
    /\ UNCHANGED <<prog, client>>

\* try_run, lines 239-244: the insert block ends, the push block takes the
\* guard of the stack and pushes.
Push ==
    /\ panicked = "no"
    /\ at = "insert"
    /\ Locking(Drop(1), "stack", "write",
          /\ stack' = Append(stack, <<call.q, call.h>>)
          /\ at' = "push"
          /\ UNCHANGED <<fns, caches, effects, frames, panicked, failed, hist,
                         call>>)
    /\ UNCHANGED <<prog, client>>

\* try_run, line 243: stack_top, the last element before the push.
StackTop == stack[Len(stack) - 1]

\* try_run, lines 246-251: inside the push block the write guard of the
\* caches is taken and the dependency recorded on stack_top.
Record ==
    /\ panicked = "no"
    /\ at = "push"
    /\ Len(stack) > 1
    /\ Locking(held, "caches", "write",
          /\ caches' = [caches EXCEPT
                           ![StackTop[1]][StackTop[2]].dependencies =
                               Append(@, <<call.q, call.h>>)]
          /\ at' = "record"
          /\ UNCHANGED <<fns, stack, effects, frames, panicked, failed, hist,
                         call>>)
    /\ UNCHANGED <<prog, client>>

\* try_run, lines 252-255: the if block (when it was entered) and the push
\* block end, and the body is called.
CallBody ==
    /\ panicked = "no"
    /\ (at = "push" /\ Len(stack) = 1) \/ at = "record"
    /\ held' = Drop(IF at = "record" THEN 2 ELSE 1)
    /\ frames' = Append(frames, NewFrame(call.q, call.h, call.why))
    /\ at' = "user"
    /\ call' = NoCall
    /\ UNCHANGED <<prog, db, panicked, failed, hist, client>>

\* Database::do_effect, lines 291-299, called by the body on top: the write
\* guard of the scratch lives from line 292 to line 299.
DoEffect ==
    /\ Running
    /\ at = "user"
    /\ Top.pc <= Len(TopOps)
    /\ TopOps[Top.pc].k = "eff"
    /\ IF Free(held, "effects", "write")
       THEN /\ effects' = Append(effects, TopOps[Top.pc].e)
            /\ frames' = [frames EXCEPT ![Len(frames)] =
                             [@ EXCEPT !.pc = @ + 1,
                                       !.em = Append(@, TopOps[Top.pc].e)]]
            /\ UNCHANGED <<fns, caches, stack, panicked, failed, hist, locks>>
       ELSE WouldBlock
    /\ UNCHANGED <<prog, client>>

\* try_run, lines 255-259: the body on top has returned; the pop block takes
\* the guard of the stack and pops.
BodyReturn ==
    /\ Running
    /\ at = "user"
    /\ Top.pc > Len(TopOps)
    /\ Locking(held, "stack", "write",
          /\ stack' = Pop(stack)
          /\ at' = "pop"
          /\ call' = [NoCall EXCEPT !.q = Top.q, !.h = Top.h]
          /\ UNCHANGED <<fns, caches, effects, frames, panicked, failed,
                         hist>>)
    /\ UNCHANGED <<prog, client>>

\* try_run, lines 260-264: the pop block ends; the commit block takes the
\* guard of the scratch and moves the scratch out.
Take ==
    /\ panicked = "no"
    /\ at = "pop"
    /\ Locking(Drop(1), "effects", "write",
          /\ call' = [call EXCEPT !.effects = effects]
          /\ effects' = <<>>
          /\ at' = "take"
          /\ UNCHANGED <<fns, caches, stack, frames, panicked, failed, hist>>)
    /\ UNCHANGED <<prog, client>>

\* try_run, lines 266-270: inside the commit block the write guard of the
\* caches is taken and the entry gets its effects and its value.
Store ==
    /\ panicked = "no"
    /\ at = "take"
    /\ Locking(held, "caches", "write",
          /\ caches' = [caches EXCEPT
                           ![call.q][call.h].effects = call.effects,
                           ![call.q][call.h].value =
                               BodyRet(Top.body, Top.h, Top.rs)]
          /\ at' = "store"
          /\ UNCHANGED <<fns, stack, effects, frames, panicked, failed, hist,
                         call>>)
    /\ UNCHANGED <<prog, client>>

\* try_run, lines 271-273: the commit block ends and the value is returned to
\* the caller.
Return ==
    /\ panicked = "no"
    /\ at = "store"
    /\ held' = Drop(2)
    /\ frames' = Deliver(SubSeq(frames, 1, Len(frames) - 1),
                         BodyRet(Top.body, Top.h, Top.rs))
    /\ at' = "user"
    /\ call' = NoCall
    /\ UNCHANGED <<prog, db, panicked, failed, hist, client>>

\* Database::register, called by the client between two runs: it takes
\* &mut self, so no guard is alive; its own guard of the caches lives from
\* line 138 to line 152.
LockRegister(q, body) == at = "user" /\ Register(q, body)

LockNext ==
    \/ \E q \in Queries : \E body \in BodiesOf(prog, q) : LockRegister(q, body)
    \/ \E q \in Queries : \E h \in InputsOf(prog, q) : LockRun(q, h)
    \/ LockBodyCall
    \/ LookupReturn
    \/ LookupInsert
    \/ Push
    \/ Record
    \/ CallBody
    \/ DoEffect
    \/ BodyReturn
    \/ Take
    \/ Store
    \/ Return

LockSpec == Init /\ [][LockNext]_vars

\* C25 (no handle spans user code): whenever client code or a query body
\* runs, and so at the moment try_run calls a body, no guard of the caches,
\* the stack or the scratch is alive; no read() or write() is ever called on a
\* lock that a guard of an enclosing run excludes; and a guard of the caches
\* is always the one taken last (stack before caches, effects before caches).
C25_NoGuardSpansBody ==
    /\ panicked # "would block"
    /\ at = "user" => held = <<>>
    /\ \A i \in 1..Len(held) : held[i].lock = "caches" => i = Len(held)

\* The body of b(0), called by the body of a(0), has taken and dropped the
\* guard of the scratch in do_effect while the run of a(0) is in progress.
C25_Witness ==
    /\ panicked = "no"
    /\ at = "user"
    /\ Len(frames) = 2
    /\ frames[1].q = "a" /\ frames[1].em = <<"e1">>
    /\ frames[2].q = "b" /\ frames[2].em = <<"e1">>
    /\ held = <<>>

====
